---- MODULE Spec2Model ----
(***************************************************************************)
(* Review summarisation pipeline (main.py, utils.py).                      *)
(*                                                                         *)
(* Text is modelled as a sequence of segments.  " " is a run of            *)
(* whitespace, "\n" a newline, "a" and "b" are short words and "L" is a    *)
(* long passage.  None is Python's None in a list of texts, NullId a NULL   *)
(* Id read from the store.  The tokenizer (tiktoken) and the completion    *)
(* endpoint are external: the tokenizer is modelled by a token count per   *)
(* segment, the endpoint by a nondeterministic reply.                      *)
(***************************************************************************)
EXTENDS Integers, Sequences, FiniteSets, TLC

\* ------------------------------------------------------------------ bounds
MaxReviews == 2        \* longest raw review list drawn for one id
MaxStrLen == 2         \* longest raw review text, in segments
MaxRuns == 2           \* how many times the process is started

\* ------------------------------------------------------------ text helpers
None == <<"None">>

Segments == {" ", "a", "L"}

Whitespace == {" ", "\n"}

RECURSIVE SeqsUpTo(_, _)
SeqsUpTo(S, n) ==
    IF n = 0 THEN {<<>>}
    ELSE LET shorter == SeqsUpTo(S, n - 1)
         IN shorter \cup {Append(s, x) : s \in {t \in shorter : Len(t) = n - 1}, x \in S}

Range(s) == {s[j] : j \in 1..Len(s)}

\* str.strip(): remove leading and trailing whitespace
RECURSIVE lstrip(_)
lstrip(s) ==
    IF s # <<>> /\ Head(s) \in Whitespace THEN lstrip(Tail(s)) ELSE s

RECURSIVE rstrip(_)
rstrip(s) ==
    IF s # <<>> /\ s[Len(s)] \in Whitespace
    THEN rstrip(SubSeq(s, 1, Len(s) - 1))
    ELSE s

strip(s) == rstrip(lstrip(s))

\* truthiness of an optional string: None and "" are falsy
Truthy(v) == v # None /\ v # <<>>

SelectTruthy(seq) == SelectSeq(seq, LAMBDA v : Truthy(v))

StripAll(seq) == [j \in 1..Len(seq) |-> strip(seq[j])]

\* every list holding each member of S once: the orders list(set(...)) may give
Orderings(S) ==
    {s \in SeqsUpTo(S, Cardinality(S)) : Len(s) = Cardinality(S) /\ Range(s) = S}

\* preprocess_reviews: the set of lists the call may return
preprocess_reviews(reviews) ==
    LET noNone == SelectTruthy(reviews)          \* list(filter(None, ...))
        noEmpty == SelectTruthy(noNone)          \* [r for r in ... if r]
        stripped == StripAll(noEmpty)            \* [r.strip() for r in ...]
    IN Orderings(Range(stripped))                \* list(set(...))

\* ------------------------------------------------------------- token count
SegTokens(c) == CASE c = "L" -> 8000 [] OTHER -> 1

RECURSIVE num_tokens_from_string(_)
num_tokens_from_string(s) ==
    IF s = <<>> THEN 0 ELSE SegTokens(Head(s)) + num_tokens_from_string(Tail(s))

max_tokens == 1200

model_context_limit == 16000

\* tokens of the fixed system prompt under the gpt-3.5-turbo encoding (an
\* estimate of the tokenizer's count; the budget stays near 14670 either way)
system_prompt_token_count == 130

max_token_count_for_context ==
    model_context_limit - max_tokens - system_prompt_token_count

RECURSIVE SumTokens(_)
SumTokens(seq) ==
    IF seq = <<>> THEN 0 ELSE num_tokens_from_string(Head(seq)) + SumTokens(Tail(seq))

RECURSIVE accumulate_skip(_, _, _)
accumulate_skip(reviews, ctx, inc) ==
    IF reviews = <<>> THEN [context |-> ctx, included |-> inc]
    ELSE IF num_tokens_from_string(Head(reviews)) > max_token_count_for_context
         THEN accumulate_skip(Tail(reviews), ctx, inc)                  \* continue
         ELSE accumulate_skip(Tail(reviews), ctx \o Head(reviews) \o <<"\n">>,
                              Append(inc, Head(reviews)))

\* included reviews and context string built by the loop of generate_summary_openai
RECURSIVE accumulate(_, _, _)
accumulate(reviews, ctx, inc) ==
    IF reviews = <<>> THEN [context |-> ctx, included |-> inc]
    ELSE IF num_tokens_from_string(Head(reviews)) > max_token_count_for_context
         THEN [context |-> ctx, included |-> inc]                       \* break
         ELSE accumulate(Tail(reviews), ctx \o Head(reviews) \o <<"\n">>,
                         Append(inc, Head(reviews)))

\* ---------------------------------------------------------------- the store
Ids == {1, 2}

NullId == 0            \* a NULL Id column, read as None

IdValues == Ids \cup {NullId}

Summaries == {"s1", "s2"}

OldSummary == "old"

NoCall == "NoCall"

ConnectFaults == {"none", "connect", "cursor", "execute"}

ReadFaults == ConnectFaults \cup {"fetchall"}

WriteFaults == ConnectFaults \cup {"commit"}

\* SELECT DISTINCT Id FROM table, in order of first occurrence
RECURSIVE DistinctIds(_)
DistinctIds(table) ==
    IF table = <<>> THEN <<>>
    ELSE LET before == DistinctIds(SubSeq(table, 1, Len(table) - 1))
             last == table[Len(table)].Id
         IN IF last \in Range(before) THEN before ELSE Append(before, last)

\* SELECT Rating, Review FROM table WHERE Id=?   (Id = NULL matches no row)
SelectRows(table, id) ==
    IF id = NullId THEN <<>>
    ELSE SelectSeq(table, LAMBDA r : r.Id = id)

\* UPDATE bmp_academy_details SET review_summary = ? WHERE id = ?
SqlUpdate(table, id, text) ==
    [r \in DOMAIN table |-> IF r = id THEN text ELSE table[r]]

\* state of the local name conn / curr when the finally block runs:
\* its value before the try ("unbound" when never assigned, "None" when
\* initialised to None) unless the assignment in the try was reached
ConnAtFinally(fault, initial) == IF fault = "connect" THEN initial ELSE "open"

CurrAtFinally(fault, initial) ==
    IF fault \in {"connect", "cursor"} THEN initial ELSE "open"

\* finally: if curr: curr.close()  /  if conn: conn.close()
\* exc is the exception the block raises, leaked the connections left open
Finally(curr, conn) ==
    IF curr = "unbound" THEN
        [exc |-> "UnboundLocalError", leaked |-> IF conn = "open" THEN 1 ELSE 0]
    ELSE IF conn = "unbound" THEN [exc |-> "UnboundLocalError", leaked |-> 0]
    ELSE [exc |-> "none", leaked |-> 0]

fetch_unique_values_from_db_unbound(table, fault) ==
    LET fin == Finally(CurrAtFinally(fault, "unbound"), ConnAtFinally(fault, "unbound"))
    IN [ret |-> IF fault = "none" THEN DistinctIds(table) ELSE <<>>,
        exc |-> fin.exc, leaked |-> fin.leaked]

fetch_unique_values_from_db(table, fault) ==
    LET fin == Finally(CurrAtFinally(fault, "None"), ConnAtFinally(fault, "None"))
    IN [ret |-> IF fault = "none" THEN DistinctIds(table) ELSE <<>>,
        exc |-> fin.exc, leaked |-> fin.leaked]

fetch_rating_and_review(table, id, fault) ==
    LET fin == Finally(CurrAtFinally(fault, "unbound"), ConnAtFinally(fault, "unbound"))
        result == SelectRows(table, id)
    IN [is_none |-> ~(fault = "none" /\ result # <<>>),      \* None, no DataFrame
        rows |-> IF fault = "none" THEN result ELSE <<>>,
        exc |-> fin.exc, leaked |-> fin.leaked]

update_review_summary_uncommitted(table, id, text, fault) ==
    LET fin == Finally(CurrAtFinally(fault, "unbound"), ConnAtFinally(fault, "unbound"))
    IN [table |-> table, exc |-> fin.exc, leaked |-> fin.leaked]

update_review_summary_all_rows(table, id, text, fault) ==
    LET fin == Finally(CurrAtFinally(fault, "unbound"), ConnAtFinally(fault, "unbound"))
    IN [table |-> IF fault = "none" THEN [r \in DOMAIN table |-> text] ELSE table,
        exc |-> fin.exc, leaked |-> fin.leaked]

\* the destination is bmp_academy_details whatever summary_table names;
\* an UPDATE that is not committed is rolled back when the connection closes
update_review_summary(table, id, text, fault) ==
    LET fin == Finally(CurrAtFinally(fault, "unbound"), ConnAtFinally(fault, "unbound"))
    IN [table |-> IF fault = "none" THEN SqlUpdate(table, id, text) ELSE table,
        exc |-> fin.exc, leaked |-> fin.leaked]

\* -------------------------------------------------------------- the driver
VARIABLES
    run,               \* how many times the process has been started
    pc,                \* position of main()
    review_table,      \* rows of the review table (REVIEW_TABLE)
    summary_table,     \* bmp_academy_details: id -> review_summary
    unique_ids,        \* main: unique_ids
    i,                 \* main: position of _id in unique_ids
    rating_review_df,  \* main: rating_review_df
    total_rating,      \* main: total_rating
    average_rating,    \* main: average_rating, in hundredths
    all_reviews,       \* main: all_reviews
    summary,           \* main: summary
    ids_call,          \* last call of fetch_unique_values_from_db
    fetch_call,        \* last call of fetch_rating_and_review
    gen_call,          \* last call of generate_summary_openai
    update_call,       \* last call of update_review_summary
    attempted,         \* ids whose iteration was entered, in order
    raised,            \* positions whose iteration ended in the except clause
    write_called,      \* positions for which update_review_summary was called
    completion_calls,  \* calls of the completion endpoint in this run
    last_call_for,     \* id -> text of the latest update_review_summary call
    any_update_fault,  \* some update_review_summary call met a store fault
    open_connections   \* connections left open by operations that ended

vars == <<run, pc, review_table, summary_table, unique_ids, i, rating_review_df,
          total_rating, average_rating, all_reviews, summary, ids_call,
          fetch_call, gen_call, update_call, attempted, raised, write_called,
          completion_calls, last_call_for, any_update_fault, open_connections>>

store == <<review_table, summary_table, last_call_for, any_update_fault>>

ReviewValues == SeqsUpTo(Segments, MaxStrLen) \cup {None}

\* rows the driver's runs read: one short review per row
DriverRows == {[Id |-> id, Rating |-> 5, Review |-> <<"a">>] : id \in IdValues}

\* rows of one id with any review text
TextRows == {[Id |-> 1, Rating |-> 5, Review |-> v] : v \in ReviewValues}

SummaryTables == UNION {[D -> {OldSummary}] : D \in SUBSET Ids}

IdleRead == [fault |-> "idle", exc |-> "none"]

IdleDF == [is_none |-> TRUE, rows |-> <<>>]

IdleGen == [reviews |-> <<>>, context |-> <<>>, included |-> <<>>, reply |-> "idle"]

IdleUpdate == [fault |-> "idle", exc |-> "none", id |-> NullId, text |-> OldSummary,
               before |-> <<>>]

RECURSIVE SumRatings(_)
SumRatings(rows) ==
    IF rows = <<>> THEN 0 ELSE Head(rows).Rating + SumRatings(Tail(rows))

\* round(mean, 2) in hundredths, for a non-empty column
RoundedMean(rows) == (200 * SumRatings(rows) + Len(rows)) \div (2 * Len(rows))

ReviewColumn(rows) == [j \in 1..Len(rows) |-> rows[j].Review]

Init ==
    /\ run = 1
    /\ pc = "start"
    /\ review_table \in SeqsUpTo(DriverRows, MaxReviews)
    /\ summary_table \in SummaryTables
    /\ unique_ids = <<>>
    /\ i = 1
    /\ rating_review_df = IdleDF
    /\ total_rating = 0
    /\ average_rating = 0
    /\ all_reviews = <<>>
    /\ summary = OldSummary
    /\ ids_call = IdleRead
    /\ fetch_call = IdleRead
    /\ gen_call = IdleGen
    /\ update_call = IdleUpdate
    /\ attempted = <<>>
    /\ raised = {}
    /\ write_called = {}
    /\ completion_calls = 0
    /\ last_call_for = [id \in IdValues |-> NoCall]
    /\ any_update_fault = FALSE
    /\ open_connections = 0

\* main.py 22: unique_ids = fetch_unique_values_from_db(review_table, "Id")
FetchUniqueIds ==
    /\ pc = "start"
    /\ \E fault \in ReadFaults :
          LET r == fetch_unique_values_from_db(review_table, fault)
          IN /\ ids_call' = [fault |-> fault, exc |-> r.exc]
             /\ open_connections' = open_connections + r.leaked
             /\ IF r.exc = "none"
                THEN unique_ids' = r.ret /\ pc' = "loop"
                ELSE unique_ids' = unique_ids /\ pc' = "crashed"   \* leaves main
    /\ i' = 1
    /\ UNCHANGED <<run, store, rating_review_df, total_rating, average_rating,
                   all_reviews, summary, fetch_call, gen_call, update_call,
                   attempted, raised, write_called, completion_calls>>

\* main.py 25-30: next _id, rating_review_df = fetch_rating_and_review(...)
FetchRatingAndReview ==
    /\ pc = "loop"
    /\ i <= Len(unique_ids)
    /\ attempted' = Append(attempted, unique_ids[i])
    /\ \E fault \in ReadFaults :
          LET r == fetch_rating_and_review(review_table, unique_ids[i], fault)
          IN /\ fetch_call' = [fault |-> fault, exc |-> r.exc]
             /\ open_connections' = open_connections + r.leaked
             /\ IF r.exc = "none"
                THEN /\ rating_review_df' = [is_none |-> r.is_none, rows |-> r.rows]
                     /\ pc' = "stats"
                     /\ UNCHANGED <<raised, i>>
                ELSE /\ raised' = raised \cup {i}               \* except Exception
                     /\ i' = i + 1
                     /\ pc' = "loop"
                     /\ UNCHANGED rating_review_df
    /\ UNCHANGED <<run, store, unique_ids, total_rating, average_rating, all_reviews,
                   summary, ids_call, gen_call, update_call, write_called,
                   completion_calls>>

\* main.py 33-42: total_rating, average_rating, all_reviews
ComputeStats ==
    /\ pc = "stats"
    /\ IF rating_review_df.is_none
       THEN /\ raised' = raised \cup {i}          \* None["Rating"]: TypeError
            /\ i' = i + 1
            /\ pc' = "loop"
            /\ UNCHANGED <<total_rating, average_rating, all_reviews>>
       ELSE /\ total_rating' = Len(rating_review_df.rows)
            /\ \E mean_ok \in BOOLEAN :
                  IF mean_ok
                  THEN /\ average_rating' = RoundedMean(rating_review_df.rows)
                       /\ all_reviews' \in
                              preprocess_reviews(ReviewColumn(rating_review_df.rows))
                       /\ pc' = "generate"
                       /\ UNCHANGED <<raised, i>>
                  ELSE /\ raised' = raised \cup {i}   \* mean() of a non-numeric column
                       /\ i' = i + 1
                       /\ pc' = "loop"
                       /\ UNCHANGED <<average_rating, all_reviews>>
    /\ UNCHANGED <<run, store, unique_ids, rating_review_df, summary, ids_call,
                   fetch_call, gen_call, update_call, attempted, write_called,
                   completion_calls, open_connections>>

\* main.py 45-47: summary = await generate_summary_openai(...)
GenerateSummary ==
    /\ pc = "generate"
    /\ completion_calls' = completion_calls + 1
    /\ \E reply \in Summaries \cup {"GenerationError"} :
          LET acc == accumulate(all_reviews, <<>>, <<>>)
          IN /\ gen_call' = [reviews |-> all_reviews, context |-> acc.context,
                             included |-> acc.included, reply |-> reply]
             /\ IF reply \in Summaries
                THEN /\ summary' = reply
                     /\ pc' = "update"
                     /\ UNCHANGED <<raised, i>>
                ELSE /\ raised' = raised \cup {i}
                     /\ i' = i + 1
                     /\ pc' = "loop"
                     /\ UNCHANGED summary
    /\ UNCHANGED <<run, store, unique_ids, rating_review_df, total_rating,
                   average_rating, all_reviews, ids_call, fetch_call, update_call,
                   attempted, write_called, open_connections>>

\* main.py 52-56: update_review_summary(summary_table, _id, summary)
UpdateReviewSummary ==
    /\ pc = "update"
    /\ write_called' = write_called \cup {i}
    /\ \E fault \in WriteFaults :
          LET r == update_review_summary(summary_table, unique_ids[i], summary, fault)
          IN /\ summary_table' = r.table
             /\ update_call' = [fault |-> fault, exc |-> r.exc, id |-> unique_ids[i],
                                text |-> summary, before |-> summary_table]
             /\ any_update_fault' = (any_update_fault \/ fault # "none")
             /\ open_connections' = open_connections + r.leaked
             /\ raised' = IF r.exc = "none" THEN raised ELSE raised \cup {i}
    /\ last_call_for' = [last_call_for EXCEPT ![unique_ids[i]] = summary]
    /\ i' = i + 1
    /\ pc' = "loop"
    /\ UNCHANGED <<run, review_table, unique_ids, rating_review_df, total_rating,
                   average_rating, all_reviews, summary, ids_call, fetch_call,
                   gen_call, attempted, completion_calls>>

\* main.py 25: the for loop is exhausted
Finish ==
    /\ pc = "loop"
    /\ i > Len(unique_ids)
    /\ pc' = "done"
    /\ UNCHANGED <<run, store, unique_ids, i, rating_review_df, total_rating,
                   average_rating, all_reviews, summary, ids_call, fetch_call,
                   gen_call, update_call, attempted, raised, write_called,
                   completion_calls, open_connections>>

\* main.py 61-62: the process is started again; the store keeps its contents
Restart ==
    /\ pc = "done"
    /\ run < MaxRuns
    /\ run' = run + 1
    /\ pc' = "start"
    /\ unique_ids' = <<>>
    /\ i' = 1
    /\ rating_review_df' = IdleDF
    /\ total_rating' = 0
    /\ average_rating' = 0
    /\ all_reviews' = <<>>
    /\ summary' = OldSummary
    /\ ids_call' = IdleRead
    /\ fetch_call' = IdleRead
    /\ gen_call' = IdleGen
    /\ update_call' = IdleUpdate
    /\ attempted' = <<>>
    /\ raised' = {}
    /\ write_called' = {}
    /\ completion_calls' = 0
    /\ open_connections' = 0
    /\ UNCHANGED store

Next ==
    \/ FetchUniqueIds
    \/ FetchRatingAndReview
    \/ ComputeStats
    \/ GenerateSummary
    \/ UpdateReviewSummary
    \/ Finish
    \/ Restart

Spec == Init /\ [][Next]_vars

\* One iteration on the rows fetched for id 1, with any review texts: the
\* state main() is in after line 30 returned a DataFrame.
InitSummary ==
    /\ run = 1
    /\ pc = "stats"
    /\ \E rows \in SeqsUpTo(TextRows, MaxReviews) :
          /\ rows # <<>>
          /\ review_table = rows
          /\ rating_review_df = [is_none |-> FALSE, rows |-> rows]
    /\ summary_table \in {[id \in Ids |-> OldSummary]}
    /\ unique_ids = <<1>>
    /\ i = 1
    /\ total_rating = 0
    /\ average_rating = 0
    /\ all_reviews = <<>>
    /\ summary = OldSummary
    /\ ids_call = [fault |-> "none", exc |-> "none"]
    /\ fetch_call = [fault |-> "none", exc |-> "none"]
    /\ gen_call = IdleGen
    /\ update_call = IdleUpdate
    /\ attempted = <<1>>
    /\ raised = {}
    /\ write_called = {}
    /\ completion_calls = 0
    /\ last_call_for = [id \in IdValues |-> NoCall]
    /\ any_update_fault = FALSE
    /\ open_connections = 0

NextSummary ==
    \/ ComputeStats
    \/ GenerateSummary

SpecSummary == InitSummary /\ [][NextSummary]_vars

\* ------------------------------------------------------------------ claims
IsPrefix(p, s) == Len(p) <= Len(s) /\ p = SubSeq(s, 1, Len(p))

\* C1: every id of unique_ids is attempted once, in list order, whatever step
\* fails for whichever id; the run reaches the end of the list; and an id
\* whose iteration raised got no update_review_summary call.
C1_FailureIsolatedPerId ==
    /\ IsPrefix(attempted, unique_ids)
    /\ (pc = "done" => attempted = unique_ids)
    /\ raised \cap write_called = {}

\* The part of C1 about order and completion alone.
IterationOrder ==
    /\ IsPrefix(attempted, unique_ids)
    /\ (pc = "done" => attempted = unique_ids)
    /\ pc # "crashed"

\* C2: the reviews appended to the context hold at most
\* max_token_count_for_context tokens together.
C2_ContextWithinBudget ==
    SumTokens(gen_call.included) <= max_token_count_for_context

\* C3: the list preprocess_reviews returns has no duplicates, no None, no
\* empty string, and every entry is its own stripped form.
C3_CleanedReviews ==
    /\ \A j, k \in 1..Len(all_reviews) : all_reviews[j] = all_reviews[k] => j = k
    /\ \A j \in 1..Len(all_reviews) :
          /\ all_reviews[j] # None
          /\ all_reviews[j] # <<>>
          /\ all_reviews[j] = strip(all_reviews[j])

\* C4: fetch_rating_and_review never raises on a store failure or on zero
\* matching rows: it returns None.
C4_FetchReturnsNoneOnFailure ==
    /\ fetch_call.fault \notin {"idle", "none"} =>
          fetch_call.exc = "none" /\ rating_review_df.is_none
    /\ (fetch_call.fault = "none" /\ pc = "stats" /\ rating_review_df.rows = <<>>) =>
          fetch_call.exc = "none" /\ rating_review_df.is_none

\* C5: update_review_summary that meets a store failure returns without
\* raising and leaves the destination table as it was.
C5_FailedWriteIsSilentNoOp ==
    update_call.fault \notin {"idle", "none"} =>
        update_call.exc = "none" /\ summary_table = update_call.before

\* C6: fetch_unique_values_from_db that meets a store failure at any step
\* returns an empty list and raises nothing; the driver then makes no
\* iteration, no completion call and no write.
C6_IdsDegradeToEmpty ==
    ids_call.fault \notin {"idle", "none"} =>
        /\ ids_call.exc = "none"
        /\ pc \in {"loop", "done"}
        /\ unique_ids = <<>>
        /\ attempted = <<>>
        /\ completion_calls = 0
        /\ write_called = {}
        /\ update_call.fault = "idle"

C6_Witness ==
    /\ ids_call.fault = "connect"
    /\ review_table # <<>>
    /\ pc = "done"

\* C7 as claimed: after a call of update_review_summary without store failure
\* the destination has a row for the id holding the text, whether or not the
\* row existed before.
C7_Upsert ==
    update_call.fault = "none" =>
        /\ update_call.id \in DOMAIN summary_table
        /\ summary_table[update_call.id] = update_call.text

\* C7 amended: after a call without store failure, a row that existed for
\* the id holds the text; when no row existed none is created and the table
\* is unchanged.
C7_UpdateExistingRow ==
    update_call.fault = "none" =>
        /\ DOMAIN summary_table = DOMAIN update_call.before
        /\ update_call.id \in DOMAIN update_call.before =>
              summary_table[update_call.id] = update_call.text
        /\ update_call.id \notin DOMAIN update_call.before =>
              summary_table = update_call.before

C7_Witness ==
    /\ update_call.fault = "none"
    /\ update_call.id \in DOMAIN update_call.before
    /\ update_call.before[update_call.id] # update_call.text
    /\ summary_table[update_call.id] = update_call.text

\* C8: while no update_review_summary call met a store failure, every row
\* holds the text of the latest call for its id, and a row whose id was never
\* the target of a call holds what it held at the start.
C8_LatestSummaryOnly ==
    ~any_update_fault =>
        \A r \in DOMAIN summary_table :
            summary_table[r] =
                IF last_call_for[r] = NoCall THEN OldSummary ELSE last_call_for[r]

C8_Witness ==
    /\ ~any_update_fault
    /\ update_call.fault = "none"
    /\ update_call.id \in DOMAIN update_call.before
    /\ update_call.before[update_call.id] \in Summaries
    /\ update_call.before[update_call.id] # update_call.text
    /\ summary_table[update_call.id] = update_call.text
    /\ \E r \in DOMAIN summary_table : last_call_for[r] = NoCall

\* C9: the reviews in the context are a prefix of the cleaned list; the
\* review after that prefix, if any, is the one rejected for its size, and
\* nothing after it is included.
C9_HardEarlyExit ==
    LET n == Len(gen_call.included)
    IN /\ IsPrefix(gen_call.included, gen_call.reviews)
       /\ n < Len(gen_call.reviews) =>
             num_tokens_from_string(gen_call.reviews[n + 1]) > max_token_count_for_context
       /\ \A j \in 1..n :
             num_tokens_from_string(gen_call.reviews[j]) <= max_token_count_for_context

C9_Witness ==
    LET n == Len(gen_call.included)
    IN /\ gen_call.reply # "idle"
       /\ n + 1 < Len(gen_call.reviews)
       /\ num_tokens_from_string(gen_call.reviews[n + 2]) <= max_token_count_for_context

\* C10: no connection opened by an operation that has ended is still open.
C10_ConnectionsReleased == open_connections = 0

====
